---- MODULE Spec2Model ----
(***************************************************************************)
(* delegate<R(Args...)> of delegate.hpp: a two-word value {obj, f} built   *)
(* by the macros BIND1/BIND2/CBIND1/CBIND2, invoked through f(obj, args),  *)
(* compared field by field and hashed over the two fields.                 *)
(*                                                                         *)
(* The client of the header is a small program with a few delegate         *)
(* variables of one shape R(int), a few counter objects that the           *)
(* reference-capturing macros bind, and one constexpr callable that the    *)
(* CBIND macros bind.                                                      *)
(***************************************************************************)
EXTENDS Integers, Sequences, FiniteSets, TLC

\* ------------------------------------------------------------------ bounds
MaxArg == 2       \* call arguments are drawn from 1..MaxArg
MaxVal == 2       \* a counter is not driven past this value

\* the client's counter objects c1, c2 and delegate variables x, y
Objs == {1, 2}
Slots == {1, 2}
ArgVals == 1..MaxArg

\* ------------------------------------------------- machine words (uintptr_t)
\* A word is a little-endian sequence of 16-bit limbs: two limbs when
\* sizeof(size_t) is 4, four when it is 8.
LimbBase == 65536

NullPtr == 0

RECURSIVE ToWord(_, _)
\* (uintptr_t)p: the address n as a word of `limbs` limbs.
ToWord(n, limbs) ==
    IF limbs = 0 THEN << >>
    ELSE <<n % LimbBase>> \o ToWord(n \div LimbBase, limbs - 1)

RECURSIVE XorNat(_, _, _)
\* bitwise exclusive or of two naturals below 2^bits
XorNat(a, b, bits) ==
    IF bits = 0 THEN 0
    ELSE ((a + b) % 2) + 2 * XorNat(a \div 2, b \div 2, bits - 1)

\* k ^ m
WordXor(k, m) == [i \in 1..Len(k) |-> XorNat(k[i], m[i], 16)]

RECURSIVE AddLimbs(_, _, _, _)
AddLimbs(a, b, i, carry) ==
    IF i > Len(a) THEN << >>
    ELSE LET s == a[i] + b[i] + carry
         IN  <<s % LimbBase>> \o AddLimbs(a, b, i + 1, s \div LimbBase)

\* a + b, the carry out of the top limb dropped (unsigned wrap-around)
WordAdd(a, b) == AddLimbs(a, b, 1, 0)

\* k << 6, the bits shifted out of the word dropped
WordShl6(k) ==
    [i \in 1..Len(k) |->
        ((k[i] * 64) % LimbBase) + (IF i = 1 THEN 0 ELSE k[i - 1] \div 1024)]

\* k >> 2 (logical: uintptr_t is unsigned)
WordShr2(k) ==
    [i \in 1..Len(k) |->
        (k[i] \div 4) + (IF i = Len(k) THEN 0 ELSE (k[i + 1] % 4) * 16384)]

\* 0x517cc1b727220a95 and 0x9e3779b9, least significant limb first
Magic64 == <<2709, 10018, 49591, 20860>>
Magic32 == <<31161, 40503>>


\* ------------------------------------------------------------ build choices
\* Decided when the program is built, constant afterwards.
VARIABLES
    sizeofSizeT,  \* sizeof(size_t): 4 or 8
    foldThunks,   \* whether the build gives identical thunks one address
    voidR         \* whether R, the delegates' declared result, is void

\* ------------------------------------------------------------ program state
VARIABLES
    d,        \* d[s]: the delegate variable s, a record [obj, f]
    from,     \* from[s]: history of d[s]: the expansion and object it was built from
    alive,    \* alive[o]: the counter object o is within its lifetime
    val,      \* val[o]: the counter's value
    frame,    \* frame[s]: a call through d[s] is in progress
    last      \* what the last completed operation returned and called

build == <<sizeofSizeT, foldThunks, voidR>>
vars == <<sizeofSizeT, foldThunks, voidR, d, from, alive, val, frame, last>>

\* ---------------------------------------------------------------- addresses
ObjBase == 2147295232    \* 0x7ffd2000: where the counter objects live
TextBase == 134512640    \* 0x08048000: where the thunks' code lives

\* &obj for the counter object o
ObjAddr(o) == ObjBase + 16 * o

\* the object whose storage is at address p
ObjAt(p) == CHOOSE o \in Objs : ObjAddr(o) = p

\* The binding expressions written in the client, one entry per macro
\* expansion.  Entries 2 and 3 are the same expression BIND(c, add) written
\* twice.
Sites == <<
    [macro |-> "BIND1",  memfn |-> "operator()"],
    [macro |-> "BIND2",  memfn |-> "add"],
    [macro |-> "BIND2",  memfn |-> "add"],
    [macro |-> "CBIND1", memfn |-> "operator()"],
    [macro |-> "CBIND2", memfn |-> "twice"] >>

SiteIds == 1..Len(Sites)

SitesOf(macro) == {i \in SiteIds : Sites[i].macro = macro}

\* Every macro expansion holds its own lambda expression, hence its own
\* closure type and thunk function.  Two thunks with identical code (the same
\* macro, bound type and member) may still be given one address by a build
\* that folds identical functions; the language leaves unspecified whether
\* the conversion functions of two closures return the same function.
ThunkIndex(i, fold) ==
    IF fold THEN CHOOSE j \in SiteIds :
                    /\ Sites[j] = Sites[i]
                    /\ \A k \in SiteIds : Sites[k] = Sites[i] => j <= k
    ELSE i

\* the address the lambda of site i converts to: thunk_type*
ThunkAddr(i, fold) == TextBase + 64 * ThunkIndex(i, fold)

\* the code found at the address f (folded thunks have the same code)
ThunkAt(f, fold) == Sites[CHOOSE i \in SiteIds : ThunkAddr(i, fold) = f]

\* ------------------------------------------------------------ class delegate
\* delegate() noexcept : obj{}, f{} {}
DelegateDefault == [obj |-> NullPtr, f |-> NullPtr]

\* the constructor with its initialisers exchanged: obj{f}, f{obj}
DelegateSwapped(obj, f) == [obj |-> f, f |-> obj]

\* delegate(tag<void>, void* obj, thunk_type* f) : obj{obj}, f{f} {}
Delegate(obj, f) == [obj |-> obj, f |-> f]

\* operator bool testing the reference slot: return obj;
operator_bool_obj(x) == x.obj # NullPtr

\* explicit operator bool() const noexcept { return f; }
operator_bool(x) == x.f # NullPtr

\* operator== comparing each field with the other one
operator_eq_crossed(x, y) == x.obj = y.f /\ x.f = y.obj

\* operator== forgetting the reference slot
operator_eq_f_only(x, y) == x.f = y.f

\* friend bool operator==(delegate x, delegate y)
operator_eq(x, y) == x.obj = y.obj /\ x.f = y.f

\* friend bool operator!=(delegate x, delegate y)
operator_ne(x, y) == ~operator_eq(x, y)

\* the hash with k = ... written for k ^= ...
hash_assigns(x, size) ==
    LET limbs == size \div 2
        k == ToWord(x.obj, limbs)
        h == ToWord(x.f, limbs)
        C == IF size >= 8 THEN Magic64 ELSE Magic32
    IN  WordAdd(WordAdd(WordAdd(h, C), WordShl6(k)), WordShr2(k))

\* std::hash<delegate<F>>::operator()(delegate<F> d)
hash(x, size) ==
    LET limbs == size \div 2
        k == ToWord(x.obj, limbs)
        h == ToWord(x.f, limbs)
        C == IF size >= 8 THEN Magic64 ELSE Magic32
    IN  WordXor(k, WordAdd(WordAdd(WordAdd(h, C), WordShl6(k)), WordShr2(k)))

\* --------------------------------------------------------- the bound targets
\* The counter class of the client: int operator()(int a) hands back val + a
\* and resets the counter; int add(int a) adds a and hands back the new value.
CounterCall(v, a) == [val |-> 0, ret |-> v + a]
CounterAdd(v, a) == [val |-> v + a, ret |-> v + a]

\* The constexpr callable K of the client: K(a) is a + 1, K.twice(a) is 2 * a.
KCall(a) == a + 1
KTwice(a) == 2 * a

\* the target the thunks of the CBIND macros name: no storage, no address
KTarget == 0

\* one call of a target: on which object, which member, with what argument
Called(on, memfn, a) == <<[on |-> on, memfn |-> memfn, arg |-> a]>>

\* What a call on storage outside its object's lifetime can do: the build may
\* trap, or run the member on whatever the storage holds.
Undefined(v) ==
    {[status |-> st, ret |-> << >>, val |-> v, called |-> << >>] :
        st \in {"trap", "garbage"}}

\* ------------------------------------------------------------------- thunks
\* BIND1: [](void* p, auto&... args) -> R { auto& o = *(decltype(objp))p; o(args...); }
Bind1Thunk(p, a, isVoid) ==
    LET o == ObjAt(p)
        r == CounterCall(val[o], a)
    IN  IF ~alive[o] THEN Undefined(val)
        ELSE {[status |-> "ok",
               ret |-> IF isVoid THEN << >> ELSE <<r.ret>>,
               val |-> [val EXCEPT ![o] = r.val],
               called |-> Called(o, "operator()", a)]}

\* the BIND2 thunk calling the object itself, as the BIND1 thunk does
Bind2ThunkCallsObject(p, a, isVoid) == Bind1Thunk(p, a, isVoid)

\* the BIND2 thunk whose void branch makes no call
Bind2ThunkVoidSkips(p, a, isVoid) ==
    LET o == ObjAt(p)
        r == CounterAdd(val[o], a)
    IN  IF ~alive[o] THEN Undefined(val)
        ELSE IF isVoid
             THEN {[status |-> "ok", ret |-> << >>, val |-> val, called |-> << >>]}
             ELSE {[status |-> "ok", ret |-> <<r.ret>>,
                    val |-> [val EXCEPT ![o] = r.val],
                    called |-> Called(o, "add", a)]}

\* BIND2: [](void* p, auto&... args) -> R { auto& o = *(decltype(objp))p; o.memfn(args...); }
Bind2Thunk(p, a, isVoid) ==
    LET o == ObjAt(p)
        r == CounterAdd(val[o], a)
    IN  IF ~alive[o] THEN Undefined(val)
        ELSE {[status |-> "ok",
               ret |-> IF isVoid THEN << >> ELSE <<r.ret>>,
               val |-> [val EXCEPT ![o] = r.val],
               called |-> Called(o, "add", a)]}

\* the CBIND1 thunk reaching its target through a reference to a local
\* object, so that it reads storage whose lifetime can end
CBind1ThunkReadsObject(p, a, isVoid) ==
    IF \E o \in Objs : ~alive[o] THEN Undefined(val)
    ELSE {[status |-> "ok",
           ret |-> IF isVoid THEN << >> ELSE <<KCall(a)>>,
           val |-> val,
           called |-> Called(KTarget, "operator()", a)]}

\* CBIND1: [](void*, auto&... args) -> R { obj(args...); }
CBind1Thunk(p, a, isVoid) ==
    {[status |-> "ok",
      ret |-> IF isVoid THEN << >> ELSE <<KCall(a)>>,
      val |-> val,
      called |-> Called(KTarget, "operator()", a)]}

\* CBIND2: [](void*, auto&... args) -> R { obj.memfn(args...); }
CBind2Thunk(p, a, isVoid) ==
    {[status |-> "ok",
      ret |-> IF isVoid THEN << >> ELSE <<KTwice(a)>>,
      val |-> val,
      called |-> Called(KTarget, "twice", a)]}

\* f(obj, args...): control goes to whatever code is at f.  A null f is a
\* call through a null function pointer.
CallThrough(x, a, isVoid, fold) ==
    IF x.f = NullPtr THEN Undefined(val)
    ELSE LET code == ThunkAt(x.f, fold)
         IN  CASE code.macro = "BIND1"  -> Bind1Thunk(x.obj, a, isVoid)
               [] code.macro = "BIND2"  -> Bind2Thunk(x.obj, a, isVoid)
               [] code.macro = "CBIND1" -> CBind1Thunk(x.obj, a, isVoid)
               [] code.macro = "CBIND2" -> CBind2Thunk(x.obj, a, isVoid)

\* --------------------------------------------------------------- operations
NoOp ==
    [op |-> "none", x |-> 0, y |-> 0, arg |-> 0, status |-> "ok",
     ret |-> << >>, flag |-> FALSE, nflag |-> FALSE, called |-> << >>]

Idle(s) == ~frame[s]

\* the history of a value no binding expression built
Unbound == [site |-> 0, on |-> 0]

\* the history of a value built by expansion i binding the target on
BoundBy(i, on) == [site |-> i, on |-> on]

\* what a construction or assignment leaves in the variable s
Store(s, x, origin) ==
    /\ Idle(s)
    /\ d' = [d EXCEPT ![s] = x]
    /\ from' = [from EXCEPT ![s] = origin]
    /\ last' = [NoOp EXCEPT !.op = "store", !.x = s]
    /\ UNCHANGED <<build, alive, val, frame>>

\* delegate<F> x;  or  x = delegate<F>{};
DefaultConstruct(s) == Store(s, DelegateDefault, Unbound)

\* x = y;  (the implicit copy of a trivially copyable class)
CopyAssign(s, t) == s # t /\ Store(s, d[t], from[t])

\* x = BIND(o);  the object o must be an lvalue, so it is alive here
BIND1(s, i, o) ==
    /\ i \in SitesOf("BIND1")
    /\ alive[o]
    /\ Store(s, Delegate(ObjAddr(o), ThunkAddr(i, foldThunks)), BoundBy(i, o))

\* x = BIND(o, add);
BIND2(s, i, o) ==
    /\ i \in SitesOf("BIND2")
    /\ alive[o]
    /\ Store(s, Delegate(ObjAddr(o), ThunkAddr(i, foldThunks)), BoundBy(i, o))

\* x = CBIND(K);
CBIND1(s, i) ==
    /\ i \in SitesOf("CBIND1")
    /\ Store(s, Delegate(NullPtr, ThunkAddr(i, foldThunks)), BoundBy(i, KTarget))

\* x = CBIND(K, twice);
CBIND2(s, i) ==
    /\ i \in SitesOf("CBIND2")
    /\ Store(s, Delegate(NullPtr, ThunkAddr(i, foldThunks)), BoundBy(i, KTarget))

\* R operator()(Args... args) { return f(obj, args...); } is entered through
\* the variable s.  Nothing is checked: not that f is set, not that the
\* referent is alive.
operator_call(s) ==
    /\ Idle(s)
    /\ frame' = [frame EXCEPT ![s] = TRUE]
    /\ last' = NoOp
    /\ UNCHANGED <<build, d, from, alive, val>>

\* operator() leaving the delegate it was called through empty
operator_call_return_consumes(s, a) ==
    /\ ~Idle(s)
    /\ \E out \in CallThrough(d[s], a, voidR, foldThunks) :
          /\ \A o \in Objs : out.val[o] <= MaxVal
          /\ val' = out.val
          /\ last' = [NoOp EXCEPT !.op = "call", !.x = s, !.arg = a,
                                  !.status = out.status, !.ret = out.ret,
                                  !.called = out.called]
    /\ frame' = [frame EXCEPT ![s] = FALSE]
    /\ d' = [d EXCEPT ![s] = DelegateDefault]
    /\ UNCHANGED <<build, from, alive>>

\* f(obj, args...) with the argument a: the thunk runs and the call returns.
\* A counter is not driven past MaxVal.
operator_call_return(s, a) ==
    /\ ~Idle(s)
    /\ \E out \in CallThrough(d[s], a, voidR, foldThunks) :
          /\ \A o \in Objs : out.val[o] <= MaxVal
          /\ val' = out.val
          /\ last' = [NoOp EXCEPT !.op = "call", !.x = s, !.arg = a,
                                  !.status = out.status, !.ret = out.ret,
                                  !.called = out.called]
    /\ frame' = [frame EXCEPT ![s] = FALSE]
    /\ UNCHANGED <<build, d, from, alive>>

\* if (x) ...
TestBool(s) ==
    /\ last' = [NoOp EXCEPT !.op = "bool", !.x = s, !.flag = operator_bool(d[s])]
    /\ UNCHANGED <<build, d, from, alive, val, frame>>

\* x == y and x != y
Compare(s, t) ==
    /\ last' = [NoOp EXCEPT !.op = "compare", !.x = s, !.y = t,
                            !.flag = operator_eq(d[s], d[t]),
                            !.nflag = operator_ne(d[s], d[t])]
    /\ UNCHANGED <<build, d, from, alive, val, frame>>

\* std::hash<delegate<F>>{}(x)
Hash(s) ==
    /\ last' = [NoOp EXCEPT !.op = "hash", !.x = s,
                            !.ret = hash(d[s], sizeofSizeT)]
    /\ UNCHANGED <<build, d, from, alive, val, frame>>

\* The lifetime of the counter object o ends; no delegate is told.
Destroy(o) ==
    /\ alive[o]
    /\ alive' = [alive EXCEPT ![o] = FALSE]
    /\ val' = [val EXCEPT ![o] = 0]
    /\ last' = NoOp
    /\ UNCHANGED <<build, d, from, frame>>

\* the state after construction, in a build drawn from the given choices
Start(sizes, folds, voids) ==
    /\ sizeofSizeT \in sizes
    /\ foldThunks \in folds
    /\ voidR \in voids
    /\ d = [s \in Slots |-> DelegateDefault]
    /\ from = [s \in Slots |-> Unbound]
    /\ alive = [o \in Objs |-> TRUE]
    /\ val = [o \in Objs |-> 0]
    /\ frame = [s \in Slots |-> FALSE]
    /\ last = NoOp

Init == Start({8}, BOOLEAN, {FALSE})

Next ==
    \/ \E s \in Slots : DefaultConstruct(s)
    \/ \E s, t \in Slots : CopyAssign(s, t)
    \/ \E s \in Slots, i \in SiteIds, o \in Objs : BIND1(s, i, o)
    \/ \E s \in Slots, i \in SiteIds, o \in Objs : BIND2(s, i, o)
    \/ \E s \in Slots, i \in SiteIds : CBIND1(s, i)
    \/ \E s \in Slots, i \in SiteIds : CBIND2(s, i)
    \/ \E s \in Slots : operator_call(s)
    \/ \E s \in Slots, a \in ArgVals : operator_call_return(s, a)
    \/ \E s \in Slots : TestBool(s)
    \/ \E s, t \in Slots : Compare(s, t)
    \/ \E s \in Slots : Hash(s)
    \/ \E o \in Objs : Destroy(o)

\* a 64-bit build; the build may or may not fold identical thunks
Spec == Init /\ [][Next]_vars

\* a 32-bit or a 64-bit build
InitHash == Start({4, 8}, {FALSE}, {FALSE})
SpecHash == InitHash /\ [][Next]_vars

\* delegates whose declared result R is int, or void
InitVoid == Start({8}, {FALSE}, BOOLEAN)
SpecVoid == InitVoid /\ [][Next]_vars

\* ================================================================== claims
SlotPairs == Slots \X Slots

\* the operation that completed last was `op`
Did(op) == last.op = op

\* ---- bit vectors, least significant bit first: the arithmetic the hash is
\* ---- documented in, kept apart from the limbs the model computes with
RECURSIVE NatBits(_, _)
NatBits(n, w) == IF w = 0 THEN << >> ELSE <<n % 2>> \o NatBits(n \div 2, w - 1)

RECURSIVE WordBits(_, _)
WordBits(word, i) ==
    IF i > Len(word) THEN << >> ELSE NatBits(word[i], 16) \o WordBits(word, i + 1)

RECURSIVE HexBits(_, _)
\* the bits of a constant written as hexadecimal digits, first digit first
HexBits(hex, i) ==
    IF i = 0 THEN << >> ELSE NatBits(hex[i], 4) \o HexBits(hex, i - 1)

RECURSIVE BitsSum(_, _, _, _)
BitsSum(a, b, i, carry) ==
    IF i > Len(a) THEN << >>
    ELSE <<(a[i] + b[i] + carry) % 2>>
         \o BitsSum(a, b, i + 1, (a[i] + b[i] + carry) \div 2)

BitsAdd(a, b) == BitsSum(a, b, 1, 0)
BitsXor(a, b) == [i \in 1..Len(a) |-> (a[i] + b[i]) % 2]
BitsShl(a, n) == [i \in 1..Len(a) |-> IF i <= n THEN 0 ELSE a[i - n]]
BitsShr(a, n) == [i \in 1..Len(a) |-> IF i + n > Len(a) THEN 0 ELSE a[i + n]]

\* 0x517cc1b727220a95 and 0x9e3779b9, digit by digit
HexC64 == <<5, 1, 7, 12, 12, 1, 11, 7, 2, 7, 2, 2, 0, 10, 9, 5>>
HexC32 == <<9, 14, 3, 7, 7, 9, 11, 9>>

\* k ^ (h + C + (k << 6) + (k >> 2)) modulo 2^w, w the width of a word
DocumentedHash(obj, f, w) ==
    LET k == NatBits(obj, w)
        h == NatBits(f, w)
        C == IF w >= 64 THEN HexBits(HexC64, Len(HexC64))
                        ELSE HexBits(HexC32, Len(HexC32))
    IN  BitsXor(k, BitsAdd(BitsAdd(BitsAdd(h, C), BitsShl(k, 6)), BitsShr(k, 2)))

\* C1: for every pair of delegates x, y of one shape, x == y is true exactly
\* when x.obj = y.obj and x.f = y.f, and x != y is the negation of x == y.
C1_EqualityIsFieldwise ==
    Did("compare") =>
        /\ last.flag = (/\ d[last.x].obj = d[last.y].obj
                        /\ d[last.x].f = d[last.y].f)
        /\ last.nflag = ~last.flag

\* two different variables holding bound delegates were compared equal
C1_Witness ==
    /\ Did("compare")
    /\ last.x # last.y
    /\ d[last.x].obj # NullPtr
    /\ d[last.x].f # NullPtr
    /\ last.flag
    /\ ~last.nflag

\* C2: x == y implies hash(x) = hash(y), and the hash is
\* k ^ (h + C + (k << 6) + (k >> 2)) over k = obj, h = f in arithmetic modulo
\* the word's width, whatever else is true of the delegate.
C2_HashConsistent ==
    /\ \A p \in SlotPairs :
          (p[1] < p[2] /\ operator_eq(d[p[1]], d[p[2]]))
              => hash(d[p[1]], sizeofSizeT) = hash(d[p[2]], sizeofSizeT)
    /\ Did("hash") =>
          WordBits(last.ret, 1)
              = DocumentedHash(d[last.x].obj, d[last.x].f, 8 * sizeofSizeT)

\* in a 32-bit build, where k << 6 overflows the word, a delegate that has an
\* equal in another variable was hashed
C2_Witness ==
    /\ Did("hash")
    /\ sizeofSizeT = 4
    /\ d[last.x].obj # NullPtr
    /\ \E s \in Slots : s # last.x /\ operator_eq(d[s], d[last.x])

\* ---- what the history of a variable says about its value
IsBound(s) == from[s].site # 0
MacroOf(s) == Sites[from[s].site].macro
ByBIND(s) == IsBound(s) /\ MacroOf(s) \in {"BIND1", "BIND2"}
ByCBIND(s) == IsBound(s) /\ MacroOf(s) \in {"CBIND1", "CBIND2"}

\* the same binding expression: the same macro naming the same member
SameExpression(s, t) ==
    IsBound(s) /\ IsBound(t) /\ Sites[from[s].site] = Sites[from[t].site]

\* the target a bound delegate calls: which object, which member
TargetOf(s) == [on |-> from[s].on, memfn |-> Sites[from[s].site].memfn]

\* C3 as stated: two delegates built by the same binding expression on the
\* same object compare equal, also when the expression is written twice.
C3_AnyRebindEqual ==
    Did("compare") =>
        ((SameExpression(last.x, last.y) /\ from[last.x].on = from[last.y].on)
            => last.flag)

\* C3 amended: two delegates built by one and the same expansion of a binding
\* macro on the same object compare equal.
C3_SameBindEqual ==
    Did("compare") =>
        ((/\ IsBound(last.x)
          /\ from[last.x].site = from[last.y].site
          /\ from[last.x].on = from[last.y].on)
            => last.flag /\ ~last.nflag)

\* two variables bound by the same expansion of BIND to the same object were
\* compared
C3_Witness ==
    /\ Did("compare")
    /\ last.x # last.y
    /\ ByBIND(last.x)
    /\ from[last.x] = from[last.y]
    /\ last.flag

C5_BothOrNeither ==
    \A s \in Slots : (d[s].obj = NullPtr) <=> (d[s].f = NullPtr)

\* C5 amended: a delegate is empty (both fields null), or built by BIND (both
\* fields set), or built by CBIND (f set, obj null); obj is never set with f
\* null.
C5_FieldsByOrigin ==
    \A s \in Slots :
        /\ d[s].f = NullPtr => d[s].obj = NullPtr
        /\ ~IsBound(s) => d[s].obj = NullPtr /\ d[s].f = NullPtr
        /\ ByBIND(s) => d[s].obj # NullPtr /\ d[s].f # NullPtr
        /\ ByCBIND(s) => d[s].obj = NullPtr /\ d[s].f # NullPtr

\* a delegate built by BIND, one built by CBIND and copied, side by side
C5_Witness ==
    \E s, t \in Slots :
        /\ ByBIND(s) /\ d[s].obj # NullPtr
        /\ ByCBIND(t) /\ d[t].obj = NullPtr /\ d[t].f # NullPtr

\* C6 as stated: operator bool is true exactly when both fields are set.
C6_BoolIffBothSet ==
    Did("bool") =>
        (last.flag <=> (d[last.x].obj # NullPtr /\ d[last.x].f # NullPtr))

\* C6 amended: operator bool is true exactly when f is set: false for a
\* default-constructed delegate, true for one built by any of the four macros,
\* of which those built by CBIND have a null obj.
C6_BoolIffDispatchSet ==
    Did("bool") =>
        /\ last.flag <=> (d[last.x].f # NullPtr)
        /\ IsBound(last.x) => last.flag
        /\ ~IsBound(last.x) => ~last.flag

\* a delegate built by CBIND, its obj null, tested true
C6_Witness ==
    /\ Did("bool")
    /\ ByCBIND(last.x)
    /\ d[last.x].obj = NullPtr
    /\ last.flag

\* ---- calls
\* the step in which the call in progress through the variable s returns
Returning(s) == frame[s] /\ ~frame'[s]

\* o.memfn(a), or o(a), called directly on a counter whose value is v
Direct(memfn, v, a) ==
    IF memfn = "operator()" THEN CounterCall(v, a) ELSE CounterAdd(v, a)

\* K.memfn(a), or K(a), called directly
DirectK(memfn, a) == IF memfn = "operator()" THEN KCall(a) ELSE KTwice(a)

\* the delegate in s can be called: it is bound, and what it refers to is alive
Callable(s) == IsBound(s) /\ (ByBIND(s) => alive[from[s].on])

\* C7: every call through a delegate built by BIND(o, m), o alive, or through
\* a copy of it, calls m on o once with the call's argument, changes o as the
\* direct call o.m(a) does and no other object, and returns what o.m(a)
\* returns; nothing but such a call changes a live counter.
C7_CallIsDirectCall ==
    [][/\ \A s \in Slots :
            (Returning(s) /\ ByBIND(s) /\ alive[from[s].on]) =>
                LET o == from[s].on
                    m == TargetOf(s).memfn
                    direct == Direct(m, val[o], last'.arg)
                IN  /\ last'.op = "call" /\ last'.x = s
                    /\ last'.status = "ok"
                    /\ last'.called = Called(o, m, last'.arg)
                    /\ val' = [val EXCEPT ![o] = direct.val]
                    /\ ~voidR => last'.ret = <<direct.ret>>
       /\ (\A s \in Slots : ~Returning(s)) =>
            \A o \in Objs : alive'[o] => val'[o] = val[o]
      ]_vars

\* the second of two calls add(1) through a delegate bound to counter 1 has
\* returned 2; counter 2 is alive and untouched
C7_Witness ==
    /\ Did("call")
    /\ ByBIND(last.x)
    /\ last.called = Called(1, "add", 1)
    /\ last.ret = <<2>>
    /\ val[1] = 2
    /\ alive[2] /\ val[2] = 0

\* C8: a delegate built by CBIND has a null obj, and a call through it
\* completes with the result of its target whether or not any object is still
\* alive; a call through a delegate built by BIND completes properly exactly
\* when the object it refers to is alive.
C8_CBindNeedsNoObject ==
    /\ \A s \in Slots : ByCBIND(s) => d[s].obj = NullPtr
    /\ (Did("call") /\ ByCBIND(last.x)) =>
          /\ last.status = "ok"
          /\ last.called = Called(KTarget, TargetOf(last.x).memfn, last.arg)
          /\ ~voidR => last.ret = <<DirectK(TargetOf(last.x).memfn, last.arg)>>
    /\ (Did("call") /\ ByBIND(last.x)) =>
          (last.status = "ok" <=> alive[from[last.x].on])

\* a call through a delegate built by CBIND has completed after every counter
\* object was destroyed
C8_Witness ==
    /\ Did("call")
    /\ ByCBIND(last.x)
    /\ \A o \in Objs : ~alive[o]
    /\ last.status = "ok"
    /\ last.ret = <<DirectK(TargetOf(last.x).memfn, last.arg)>>

\* C9: calling, comparing, hashing or testing a delegate changes no
\* delegate, also while calls through copies of it are in progress at once; a
\* delegate changes only by a construction or assignment, which changes that
\* one variable and no other.
C9_OnlyAssignmentChanges ==
    [][/\ d' # d =>
            /\ last'.op = "store"
            /\ \A t \in Slots \ {last'.x} : d'[t] = d[t]
       /\ (frame' # frame \/ last'.op \in {"call", "bool", "compare", "hash"})
            => d' = d
      ]_vars

\* a call through one copy of a bound delegate has returned while a call
\* through another copy of it is in progress
C9_Witness ==
    /\ Did("call")
    /\ ByBIND(last.x)
    /\ \E t \in Slots :
          t # last.x /\ frame[t] /\ d[t] = d[last.x] /\ d[t].f # NullPtr

\* C10: when R is void, every call through a callable delegate, whichever
\* macro built it, calls its target (whose own result is an int) once, has the
\* target's effect, hands back nothing and completes properly.
C10_VoidResultDiscarded ==
    [][\A s \in Slots :
          (Returning(s) /\ voidR /\ Callable(s)) =>
              LET t == TargetOf(s)
              IN  /\ last'.op = "call" /\ last'.x = s
                  /\ last'.status = "ok"
                  /\ last'.ret = << >>
                  /\ last'.called = Called(t.on, t.memfn, last'.arg)
                  /\ val' = IF ByBIND(s)
                            THEN [val EXCEPT ![t.on] =
                                     Direct(t.memfn, val[t.on], last'.arg).val]
                            ELSE val
      ]_vars

\* with R void, a call add(2) through a delegate bound to a counter at 0 has
\* completed: the counter is at 2 and nothing was handed back
C10_Witness ==
    /\ voidR
    /\ Did("call")
    /\ ByBIND(last.x)
    /\ last.called = Called(from[last.x].on, "add", 2)
    /\ last.status = "ok"
    /\ last.ret = << >>
    /\ val[from[last.x].on] = 2

====
